---- MODULE Spec2Model ----
(***************************************************************************)
(* Model of the candidate-screening workflow of screening_engine.py: the   *)
(* session runner, the six stage functions, the routers and the compiled   *)
(* stage graph.                                                            *)
(*                                                                         *)
(* Representation.                                                         *)
(*  - A Python str is a sequence of one-character strings, so that         *)
(*    strip(), the regular expressions, float() and json.loads() are       *)
(*    computed on the characters.                                          *)
(*  - A Python float is represented by its integer value; the numeric      *)
(*    literals the reasoning service returns in this model are decimal     *)
(*    integer literals, optionally followed by a fraction of zeros.        *)
(*  - The evaluation state is a function from the keys that are present    *)
(*    to their values (State is a TypedDict with total=False).             *)
(***************************************************************************)
EXTENDS Integers, Sequences, FiniteSets, TLC

(***************************************************************************)
(* Python str helpers                                                      *)
(***************************************************************************)
IsSpace(c) == c \in {" ", "\n", "\t", "\r"}

\* str.strip(): the text between its first and its last character that is
\* not white space.
strip(s) ==
    LET kept == {i \in 1..Len(s) : ~IsSpace(s[i])}
    IN  IF kept = {} THEN <<>>
        ELSE SubSeq(s, CHOOSE i \in kept : \A j \in kept : i <= j,
                       CHOOSE i \in kept : \A j \in kept : j <= i)

StartsWith(s, p) == Len(s) >= Len(p) /\ SubSeq(s, 1, Len(p)) = p

Drop(s, n) == SubSeq(s, n + 1, Len(s))

Digits == <<"0", "1", "2", "3", "4", "5", "6", "7", "8", "9">>

IsDigit(c) == \E i \in 1..10 : Digits[i] = c

DigitVal(c) == (CHOOSE i \in 1..10 : Digits[i] = c) - 1

\* The number written by the decimal digits s.
DecVal(s) ==
    LET value[k \in 0..Len(s)] ==
            IF k = 0 THEN 0 ELSE value[k - 1] * 10 + DigitVal(s[k])
    IN  value[Len(s)]

\* Length of the longest prefix of s made of digits.
DigitRun(s) ==
    CHOOSE n \in 0..Len(s) :
        /\ \A k \in 1..n : IsDigit(s[k])
        /\ n = Len(s) \/ ~IsDigit(s[n + 1])

(***************************************************************************)
(* Results of operations that may raise                                    *)
(***************************************************************************)
Ok(v) == [ok |-> TRUE, val |-> v]

Raise(e) == [ok |-> FALSE, err |-> e]

\* float(<str>): surrounding whitespace is ignored, an optional sign, then
\* digits, then optionally "." and zeros; anything else is a ValueError.
float_of_str(s) ==
    LET t    == strip(s)
        neg  == t # <<>> /\ Head(t) = "-"
        body == IF t # <<>> /\ Head(t) \in {"-", "+"} THEN Tail(t) ELSE t
        n    == DigitRun(body)
        rest == Drop(body, n)
        frac == IF rest # <<>> /\ Head(rest) = "." THEN Tail(rest) ELSE rest
        mag  == DecVal(SubSeq(body, 1, n))
    IN  IF n > 0 /\ \A i \in 1..Len(frac) : frac[i] = "0"
        THEN Ok(IF neg THEN 0 - mag ELSE mag)
        ELSE Raise("ValueError")

(***************************************************************************)
(* json.loads on characters.  A parsed JSON value is a tagged record:      *)
(* "dict" (a sequence of <<key, value>> pairs in document order), "list",  *)
(* "str", "int", "bool" or "null".  Strings are read without escape        *)
(* sequences and numbers as integers with an optional fraction of zeros.   *)
(***************************************************************************)
Fail == [ok |-> FALSE]

Parsed(p, v) == [ok |-> TRUE, pos |-> p, val |-> v]

\* The character at position i, "" past the end of the text.
At(s, i) == IF i >= 1 /\ i <= Len(s) THEN s[i] ELSE ""

RECURSIVE SkipWs(_, _)
SkipWs(s, i) == IF IsSpace(At(s, i)) THEN SkipWs(s, i + 1) ELSE i

ParseString(s, i) ==
    LET closing == {j \in (i + 1)..Len(s) : s[j] = "\""}
        j       == CHOOSE k \in closing : \A m \in closing : k <= m
        body    == SubSeq(s, i + 1, j - 1)
    IN  IF At(s, i) # "\"" \/ closing = {} THEN Fail
        ELSE IF \E k \in 1..Len(body) : body[k] \in {"\n", "\t", "\r", "\\"}
        THEN Fail
        ELSE Parsed(j + 1, [t |-> "str", v |-> body])

ParseNumber(s, i) ==
    LET neg   == At(s, i) = "-"
        start == IF neg THEN i + 1 ELSE i
        n     == DigitRun(Drop(s, start - 1))
        mag   == DecVal(SubSeq(s, start, start + n - 1))
        value == [t |-> "int", v |-> IF neg THEN 0 - mag ELSE mag]
        m     == DigitRun(Drop(s, start + n))
        zeros == \A k \in (start + n + 1)..(start + n + m) : s[k] = "0"
    IN  IF n = 0 \/ (n > 1 /\ s[start] = "0") THEN Fail
        ELSE IF At(s, start + n) # "." THEN Parsed(start + n, value)
        ELSE IF m > 0 /\ zeros THEN Parsed(start + n + 1 + m, value)
        ELSE Fail

ParseLiteral(s, i) ==
    LET rest == Drop(s, i - 1)
    IN  IF StartsWith(rest, <<"n","u","l","l">>)
        THEN Parsed(i + 4, [t |-> "null"])
        ELSE IF StartsWith(rest, <<"t","r","u","e">>)
        THEN Parsed(i + 4, [t |-> "bool", v |-> TRUE])
        ELSE IF StartsWith(rest, <<"f","a","l","s","e">>)
        THEN Parsed(i + 5, [t |-> "bool", v |-> FALSE])
        ELSE Fail

RECURSIVE ParseValue(_, _), ParseMembers(_, _, _), ParseElements(_, _, _)
\* One JSON value starting at position i (no leading whitespace).
ParseValue(s, i) ==
    LET c == At(s, i)
    IN  IF c = "{"
        THEN IF At(s, SkipWs(s, i + 1)) = "}"
             THEN Parsed(SkipWs(s, i + 1) + 1, [t |-> "dict", v |-> <<>>])
             ELSE ParseMembers(s, SkipWs(s, i + 1), <<>>)
        ELSE IF c = "["
        THEN IF At(s, SkipWs(s, i + 1)) = "]"
             THEN Parsed(SkipWs(s, i + 1) + 1, [t |-> "list", v |-> <<>>])
             ELSE ParseElements(s, SkipWs(s, i + 1), <<>>)
        ELSE IF c = "\"" THEN ParseString(s, i)
        ELSE IF c = "-" \/ IsDigit(c) THEN ParseNumber(s, i)
        ELSE ParseLiteral(s, i)

\* The members of an object from position i (at a key) to the closing brace.
ParseMembers(s, i, acc) ==
    LET key   == ParseString(s, i)
        colon == SkipWs(s, key.pos)
        value == ParseValue(s, SkipWs(s, colon + 1))
        after == SkipWs(s, value.pos)
        pairs == Append(acc, <<key.val.v, value.val>>)
    IN  IF ~key.ok THEN Fail
        ELSE IF At(s, colon) # ":" THEN Fail
        ELSE IF ~value.ok THEN Fail
        ELSE IF At(s, after) = "}"
        THEN Parsed(after + 1, [t |-> "dict", v |-> pairs])
        ELSE IF At(s, after) = ","
        THEN ParseMembers(s, SkipWs(s, after + 1), pairs)
        ELSE Fail

\* The elements of an array from position i to the closing bracket.
ParseElements(s, i, acc) ==
    LET value == ParseValue(s, i)
        after == SkipWs(s, value.pos)
        elems == Append(acc, value.val)
    IN  IF ~value.ok THEN Fail
        ELSE IF At(s, after) = "]"
        THEN Parsed(after + 1, [t |-> "list", v |-> elems])
        ELSE IF At(s, after) = ","
        THEN ParseElements(s, SkipWs(s, after + 1), elems)
        ELSE Fail

\* json.loads(s): one value surrounded by optional whitespace.
json_loads(s) ==
    LET r == ParseValue(s, SkipWs(s, 1))
    IN  IF r.ok /\ SkipWs(s, r.pos) > Len(s)
        THEN Ok(r.val)
        ELSE Raise("JSONDecodeError")

\* dict.get(key, default): the last member with that key wins.
dict_get(d, key, default) ==
    LET hits == {k \in 1..Len(d.v) : d.v[k][1] = key}
    IN  IF hits = {} THEN default
        ELSE d.v[CHOOSE k \in hits : \A m \in hits : m <= k][2]

\* The backquote character, which a TLA+ string cannot contain.
BT == "<backquote>"

(***************************************************************************)
(* String literals of the program, and the texts used as inputs: resume    *)
(* texts, job descriptions and the answers of the reasoning service.       *)
(***************************************************************************)
\* 'No Match'
S_NoMatch ==
    <<"N","o"," ","M","a","t","c","h">>

\* 'Parsing failed.'
S_ParsingFailed ==
    <<"P","a","r","s","i","n","g"," ","f","a","i","l","e","d",".">>

\* 'relevance_score'
S_relevance_score ==
    <<"r","e","l","e","v","a","n","c","e","_","s","c","o","r","e">>

\* 'analysis_summary'
S_analysis_summary ==
    <<"a","n","a","l","y","s","i","s","_","s","u","m","m","a","r","y">>

\* '(fence)json'
FenceJson ==
    <<BT,BT,BT,"j","s","o","n">>

\* '(fence)'
Fence ==
    <<BT,BT,BT>>

\* 'ML eng 9y'
T_Resume1 ==
    <<"M","L"," ","e","n","g"," ","9","y">>

\* 'cook'
T_Resume2 ==
    <<"c","o","o","k">>

\* 'ML eng'
T_Job1 ==
    <<"M","L"," ","e","n","g">>

\* ' ML 9y\n'
R_Summary1 ==
    <<" ","M","L"," ","9","y","\n">>

\* 'Senior-level'
R_Senior ==
    <<"S","e","n","i","o","r","-","l","e","v","e","l">>

\* ' Entry-level\n'
R_Entry ==
    <<" ","E","n","t","r","y","-","l","e","v","e","l","\n">>

\* 'Match'
R_Match ==
    <<"M","a","t","c","h">>

\* 'No Match'
R_NoMatch ==
    <<"N","o"," ","M","a","t","c","h">>

\* ' No Match\n'
R_NoMatchPadded ==
    <<" ","N","o"," ","M","a","t","c","h","\n">>

\* 'No Match.'
R_NoMatchDot ==
    <<"N","o"," ","M","a","t","c","h",".">>

\* 'no match'
R_NoMatchLower ==
    <<"n","o"," ","m","a","t","c","h">>

\* 'Sure:\n(fence)json\n{"relevance_score": 82, "analysis_summary": "Strong fit"}\n(fence)'
R_DeepFenced ==
    <<"S","u","r","e",":","\n",BT,BT,BT,"j","s","o","n","\n","{","\"",
      "r","e","l","e","v","a","n","c","e","_","s","c","o","r","e","\"",
      ":"," ","8","2",","," ","\"","a","n","a","l","y","s","i","s","_",
      "s","u","m","m","a","r","y","\"",":"," ","\"","S","t","r","o","n",
      "g"," ","f","i","t","\"","}","\n",BT,BT,BT>>

\* 'I cannot determine this.'
R_DeepNoJson ==
    <<"I"," ","c","a","n","n","o","t"," ","d","e","t","e","r","m","i","n",
      "e"," ","t","h","i","s",".">>

\* '{"relevance_score": null}'
R_DeepNull ==
    <<"{","\"","r","e","l","e","v","a","n","c","e","_","s","c","o","r",
      "e","\"",":"," ","n","u","l","l","}">>

\* '{"relevance_score": "high"}'
R_DeepWord ==
    <<"{","\"","r","e","l","e","v","a","n","c","e","_","s","c","o","r",
      "e","\"",":"," ","\"","h","i","g","h","\"","}">>

\* '{"relevance_score": "90"}'
R_DeepNumStr ==
    <<"{","\"","r","e","l","e","v","a","n","c","e","_","s","c","o","r",
      "e","\"",":"," ","\"","9","0","\"","}">>

\* '{"analysis_summary": "ok"}'
R_DeepNoScore ==
    <<"{","\"","a","n","a","l","y","s","i","s","_","s","u","m","m","a",
      "r","y","\"",":"," ","\"","o","k","\"","}">>

\* '{}'
R_DeepEmpty ==
    <<"{","}">>

\* '{"relevance_score": 150, "analysis_summary": "top"}'
R_DeepHuge ==
    <<"{","\"","r","e","l","e","v","a","n","c","e","_","s","c","o","r",
      "e","\"",":"," ","1","5","0",","," ","\"","a","n","a","l","y","s",
      "i","s","_","s","u","m","m","a","r","y","\"",":"," ","\"","t","o",
      "p","\"","}">>

\* '{"relevance_score": 82,}'
R_DeepTrailingComma ==
    <<"{","\"","r","e","l","e","v","a","n","c","e","_","s","c","o","r",
      "e","\"",":"," ","8","2",",","}">>

\* '[82, "fit"]'
R_DeepArray ==
    <<"[","8","2",","," ","\"","f","i","t","\"","]">>

\* '{"relevance_score": [82]}'
R_DeepList ==
    <<"{","\"","r","e","l","e","v","a","n","c","e","_","s","c","o","r",
      "e","\"",":"," ","[","8","2","]","}">>

\* '{"relevance_score": 10} or {"relevance_score": 20}'
R_DeepTwo ==
    <<"{","\"","r","e","l","e","v","a","n","c","e","_","s","c","o","r",
      "e","\"",":"," ","1","0","}"," ","o","r"," ","{","\"","r","e","l",
      "e","v","a","n","c","e","_","s","c","o","r","e","\"",":"," ","2",
      "0","}">>

\* 'schedule_interview'
R_Schedule ==
    <<"s","c","h","e","d","u","l","e","_","i","n","t","e","r","v","i","e",
      "w">>

\* ' reject_application\n'
R_Reject ==
    <<" ","r","e","j","e","c","t","_","a","p","p","l","i","c","a","t","i",
      "o","n","\n">>

\* 'notify_recruiter'
R_Notify ==
    <<"n","o","t","i","f","y","_","r","e","c","r","u","i","t","e","r">>

\* '85'
R_Conf85 ==
    <<"8","5">>

\* ' 60.0\n'
R_Conf60 ==
    <<" ","6","0",".","0","\n">>

\* '59'
R_Conf59 ==
    <<"5","9">>

\* 'high'
R_ConfWord ==
    <<"h","i","g","h">>

\* '85%'
R_ConfPercent ==
    <<"8","5","%">>

\* ' ML eng 9y\n'
T_ManualPadded ==
    <<" ","M","L"," ","e","n","g"," ","9","y","\n">>

\* '  \n'
T_ManualBlank ==
    <<" "," ","\n">>

\* 'a\nb\nc\nd\ne\nf\ng\nh\ni\nj\nk'
T_ManualLong ==
    <<"a","\n","b","\n","c","\n","d","\n","e","\n","f","\n","g","\n","h",
      "\n","i","\n","j","\n","k">>

\* st.file_uploader: no file (None), or a PDF given by the text that
\* page.extract_text() finds on each page, empty for a page without text.
NoFile == [uploaded |-> FALSE, pages |-> <<>>]

PdfFile(pages) == [uploaded |-> TRUE, pages |-> pages]

F_Resume == PdfFile(<<T_Resume2, <<>>, T_Resume1>>)

\* What the user has entered in the page when pressing "Run AI Screening".
Form(uploaded_file, manual_resume, summarize_resume, job_desc) ==
    [uploaded_file    |-> uploaded_file,
     manual_resume    |-> manual_resume,
     summarize_resume |-> summarize_resume,
     job_desc         |-> job_desc]

Forms ==
    {Form(NoFile,   T_ManualPadded, FALSE, T_Job1),
     Form(NoFile,   T_ManualLong,   TRUE,  T_Job1),
     Form(F_Resume, <<>>,           FALSE, T_Job1),
     Form(F_Resume, T_ManualPadded, FALSE, T_Job1),
     Form(NoFile,   T_ManualBlank,  FALSE, T_Job1),
     Form(F_Resume, T_ManualPadded, FALSE, <<>>)}

SummaryResponses == {R_Summary1}

ExperienceResponses == {R_Senior, R_Entry}

SkillResponses ==
    {R_Match, R_NoMatch, R_NoMatchPadded, R_NoMatchDot, R_NoMatchLower}

DeepResponses ==
    {R_DeepFenced, R_DeepNoJson, R_DeepNull, R_DeepWord, R_DeepNumStr,
     R_DeepNoScore, R_DeepEmpty, R_DeepHuge, R_DeepTrailingComma,
     R_DeepArray, R_DeepList, R_DeepTwo}

DecisionResponses == {R_Schedule, R_Reject, R_Notify}

ReflectionResponses == {R_Schedule, R_Reject}

ConfidenceResponses ==
    {R_Conf85, R_Conf60, R_Conf59, R_ConfWord, R_ConfPercent}

(***************************************************************************)
(* Program constants                                                       *)
(***************************************************************************)
\* route_after_confidence: reflection_attempts >= 3 ends the run.
ReflectionCeiling == 3

\* route_after_confidence: confidence_score < 60 loops back.
ConfidenceThreshold == 60

\* deep_profile_analysis: relevance_score when nothing could be parsed.
DefaultRelevance == 50

\* confidence_agent: confidence_score when the answer is not a number.
DefaultConfidence == 75

\* hiring_decision_agent, reflection_agent: the relevance_score put in the
\* prompt when the state has none.
PromptRelevance == 50

(***************************************************************************)
(* The evaluation state (class State, a TypedDict with total=False)        *)
(***************************************************************************)
StateKeys ==
    {"application", "job_description", "experience_level", "skill_match",
     "relevance_score", "analysis_summary", "agent_decision",
     "final_decision", "confidence_score", "reflection_attempts"}

\* state.get(key, default)
Get(st, key, default) == IF key \in DOMAIN st THEN st[key] ELSE default

\* The graph merges the partial update a stage returns into the state.
Merge(st, update) ==
    [k \in DOMAIN st \cup DOMAIN update |->
        IF k \in DOMAIN update THEN update[k] ELSE st[k]]

\* The graph keeps the keys of the input that are channels of State.
Project(input) == [k \in DOMAIN input \cap StateKeys |-> input[k]]

(***************************************************************************)
(* Stage functions: the partial update a stage returns (or what it raises) *)
(* given the content of the reasoning service's answer.  What a stage      *)
(* reads from the state to fill its prompt is prompt_inputs below; only    *)
(* reflection_agent computes its update from the state.                    *)
(***************************************************************************)
categorize_experience(content) == [experience_level |-> strip(content)]

assess_skillset(content) == [skill_match |-> strip(content)]

\* re.sub(r"(fence)json|(fence)", "", text): the leftmost fence is removed,
\* with its "json" tag when it has one, and the scan resumes after it.
RECURSIVE RemoveFences(_)
RemoveFences(s) ==
    LET starts == {i \in 1..Len(s) : StartsWith(Drop(s, i - 1), Fence)}
        first  == CHOOSE i \in starts : \A j \in starts : i <= j
        rest   == Drop(s, first - 1)
        width  == IF StartsWith(rest, FenceJson) THEN Len(FenceJson)
                  ELSE Len(Fence)
    IN  IF starts = {} THEN s
        ELSE SubSeq(s, 1, first - 1) \o RemoveFences(Drop(rest, width))

\* re.search(r"\{.*\}", text, re.DOTALL): from the first opening brace to
\* the last closing brace after it; <<>> when there is no match.
SearchBraces(s) ==
    LET opens  == {i \in 1..Len(s) : s[i] = "{"}
        first  == CHOOSE i \in opens : \A j \in opens : i <= j
        closes == {i \in 1..Len(s) : s[i] = "}" /\ i > first}
        last   == CHOOSE i \in closes : \A j \in closes : j <= i
    IN  IF opens = {} THEN <<>>
        ELSE IF closes = {} THEN <<>>
        ELSE SubSeq(s, first, last)

PyNone == [t |-> "null"]

\* The parsed object, or None when nothing matches or json.loads raises.
safe_json_extract(text) ==
    LET cleaned    == strip(RemoveFences(text))
        json_match == SearchBraces(cleaned)
        loaded     == json_loads(json_match)
    IN  IF json_match = <<>> THEN PyNone
        ELSE IF loaded.ok THEN loaded.val
        ELSE PyNone

\* Python truthiness of a parsed JSON value.
Truthy(j) ==
    CASE j.t = "null" -> FALSE
      [] j.t = "bool" -> j.v
      [] j.t = "int"  -> j.v # 0
      [] OTHER        -> j.v # <<>>

\* float(x) for a parsed JSON value x.
float_of(j) ==
    CASE j.t = "int"  -> Ok(j.v)
      [] j.t = "bool" -> Ok(IF j.v THEN 1 ELSE 0)
      [] j.t = "str"  -> float_of_str(j.v)
      [] OTHER        -> Raise("TypeError")

\* The Python value of a parsed JSON value, as it is stored in the state.
PyValue(j) == IF j.t \in {"str", "int", "bool"} THEN j.v ELSE j

\* Variant: the fallback reports no relevance and an empty summary.
deep_profile_analysis_empty_fallback(content) ==
    LET parsed  == safe_json_extract(content)
        score   == float_of(dict_get(parsed, S_relevance_score,
                                     [t |-> "int", v |-> DefaultRelevance]))
        summary == PyValue(dict_get(parsed, S_analysis_summary,
                                    [t |-> "str", v |-> <<>>]))
    IN  IF ~Truthy(parsed)
        THEN Ok([relevance_score |-> 0, analysis_summary |-> <<>>])
        ELSE IF score.ok
        THEN Ok([relevance_score |-> score.val, analysis_summary |-> summary])
        ELSE score

deep_profile_analysis(content) ==
    LET parsed  == safe_json_extract(content)
        score   == float_of(dict_get(parsed, S_relevance_score,
                                     [t |-> "int", v |-> DefaultRelevance]))
        summary == PyValue(dict_get(parsed, S_analysis_summary,
                                    [t |-> "str", v |-> <<>>]))
    IN  IF ~Truthy(parsed)
        THEN Ok([relevance_score  |-> DefaultRelevance,
                 analysis_summary |-> S_ParsingFailed])
        ELSE IF score.ok
        THEN Ok([relevance_score |-> score.val, analysis_summary |-> summary])
        ELSE score

hiring_decision_agent(content) == [agent_decision |-> strip(content)]

\* Variant: the counter advances by two.
reflection_agent_plus_two(st, content) ==
    [final_decision      |-> strip(content),
     reflection_attempts |-> Get(st, "reflection_attempts", 0) + 2]

\* Variant: a missing counter is read as 1.
reflection_agent_default_one(st, content) ==
    [final_decision      |-> strip(content),
     reflection_attempts |-> Get(st, "reflection_attempts", 1) + 1]

\* Variant: a candidate without a skill match is always rejected.
reflection_agent_reject_no_match(st, content) ==
    [final_decision      |-> IF Get(st, "skill_match", <<>>) = S_NoMatch
                             THEN strip(R_Reject)
                             ELSE strip(content),
     reflection_attempts |-> Get(st, "reflection_attempts", 0) + 1]

\* Variant: the review also overwrites the first decision.
reflection_agent_rewrites_decision(st, content) ==
    [agent_decision      |-> strip(content),
     final_decision      |-> strip(content),
     reflection_attempts |-> Get(st, "reflection_attempts", 0) + 1]

reflection_agent(st, content) ==
    [final_decision      |-> strip(content),
     reflection_attempts |-> Get(st, "reflection_attempts", 0) + 1]

\* Variant: the fallback confidence is 50.
confidence_agent_low_fallback(content) ==
    LET score == float_of_str(strip(content))
    IN  [confidence_score |-> IF score.ok THEN score.val ELSE 50]

confidence_agent(content) ==
    LET score == float_of_str(strip(content))
    IN  [confidence_score |-> IF score.ok THEN score.val
                              ELSE DefaultConfidence]

\* The values each stage reads from the state to fill its prompt.
S_Unknown == <<"U","n","k","n","o","w","n">>

S_NotAvailable == <<"N","o","t"," ","a","v","a","i","l","a","b","l","e",".">>

S_reject_application ==
    <<"r","e","j","e","c","t","_","a","p","p","l","i","c","a","t","i","o","n">>

prompt_inputs(node, st) ==
    CASE node = "categorize_experience" ->
            [application |-> st["application"]]
      [] node \in {"assess_skillset", "deep_profile_analysis"} ->
            [application     |-> st["application"],
             job_description |-> st["job_description"]]
      [] node = "hiring_decision_agent" ->
            [experience_level |-> Get(st, "experience_level", S_Unknown),
             skill_match      |-> Get(st, "skill_match", S_Unknown),
             relevance_score  |-> Get(st, "relevance_score", PromptRelevance),
             analysis_summary |-> Get(st, "analysis_summary", S_NotAvailable)]
      [] node = "reflection_agent" ->
            [agent_decision   |-> Get(st, "agent_decision",
                                      S_reject_application),
             experience_level |-> Get(st, "experience_level", S_Unknown),
             skill_match      |-> Get(st, "skill_match", S_Unknown),
             relevance_score  |-> Get(st, "relevance_score", PromptRelevance),
             analysis_summary |-> Get(st, "analysis_summary", S_NotAvailable)]
      [] node = "confidence_agent" ->
            [final_decision |-> st["final_decision"]]

(***************************************************************************)
(* Routers                                                                 *)
(***************************************************************************)
\* Variant: deep analysis is never skipped.
route_after_skill_check_no_skip(st) == "deep_profile_analysis"

\* Variant: any answer that begins with "No Match" skips deep analysis.
route_after_skill_check_prefix(st) ==
    IF StartsWith(st["skill_match"], S_NoMatch)
    THEN "hiring_decision_agent"
    ELSE "deep_profile_analysis"

route_after_skill_check(st) ==
    IF st["skill_match"] = S_NoMatch
    THEN "hiring_decision_agent"
    ELSE "deep_profile_analysis"

route_after_agent_decision(st) == "reflection_agent"

\* Variant: the ceiling is tested with > instead of >=.
route_after_confidence_late_ceiling(st) ==
    IF Get(st, "reflection_attempts", 0) > ReflectionCeiling THEN "END"
    ELSE IF Get(st, "confidence_score", 0) < ConfidenceThreshold
    THEN "reflection_agent"
    ELSE "END"

\* Variant: the threshold is tested with <= instead of <.
route_after_confidence_strict_threshold(st) ==
    IF Get(st, "reflection_attempts", 0) >= ReflectionCeiling THEN "END"
    ELSE IF Get(st, "confidence_score", 0) <= ConfidenceThreshold
    THEN "reflection_agent"
    ELSE "END"

\* Variant: a low confidence sends the run back to the first decision.
route_after_confidence_restart(st) ==
    IF Get(st, "reflection_attempts", 0) >= ReflectionCeiling THEN "END"
    ELSE IF Get(st, "confidence_score", 0) < ConfidenceThreshold
    THEN "hiring_decision_agent"
    ELSE "END"

route_after_confidence(st) ==
    IF Get(st, "reflection_attempts", 0) >= ReflectionCeiling THEN "END"
    ELSE IF Get(st, "confidence_score", 0) < ConfidenceThreshold
    THEN "reflection_agent"
    ELSE "END"

(***************************************************************************)
(* Session runner                                                          *)
(***************************************************************************)
\* The input of app.invoke, given the answer to the summarization prompt.
run_candidate_screening_from_text(text, job_description, content) ==
    [application      |-> strip(content),
     full_application |-> text,
     job_description  |-> job_description]

\* "\n".join(lines)
join_lines(lines) ==
    LET joined[k \in 0..Len(lines)] ==
            IF k = 0 THEN <<>>
            ELSE IF k = 1 THEN lines[1]
            ELSE joined[k - 1] \o <<"\n">> \o lines[k]
    IN  joined[Len(lines)]

\* str.splitlines(), for texts whose only line boundary is "\n": a line ends
\* at each line break, and the text after the last one is a line unless it
\* is empty.
splitlines(s) ==
    LET breaks   == {i \in 1..Len(s) : s[i] = "\n"}
        break(k) == CHOOSE i \in breaks :
                        Cardinality({j \in breaks : j < i}) = k - 1
        count    == IF s = <<>> \/ s[Len(s)] = "\n"
                    THEN Cardinality(breaks)
                    ELSE Cardinality(breaks) + 1
    IN  [k \in 1..count |->
            SubSeq(s, IF k = 1 THEN 1 ELSE break(k - 1) + 1,
                      IF k <= Cardinality(breaks) THEN break(k) - 1
                      ELSE Len(s))]

\* The pages of the PDF on which extract_text() finds some text.
extract_text(pdf_file) == SelectSeq(pdf_file.pages, LAMBDA text : text # <<>>)

\* The call of run_candidate_screening_from_text that the PDF entry point
\* makes: the page texts joined by line breaks.
run_candidate_screening_from_pdf(pdf_file, job_description) ==
    [entry           |-> "run_candidate_screening_from_pdf",
     text            |-> join_lines(extract_text(pdf_file)),
     job_description |-> job_description]

(***************************************************************************)
(* The page (app.py)                                                       *)
(***************************************************************************)
\* The "Summarize Resume Text" option keeps the first ten lines.
SummaryLines == 10

\* resume_text after the upload block: each page text followed by "\n".
uploaded_text(uploaded_file) ==
    LET texts == extract_text(uploaded_file)
    IN  IF texts = <<>> THEN <<>> ELSE join_lines(texts) \o <<"\n">>

\* resume_text when the button is reached.
resume_text(entered) ==
    LET from_upload == IF entered.uploaded_file.uploaded
                       THEN uploaded_text(entered.uploaded_file)
                       ELSE <<>>
        manual      == strip(entered.manual_resume)
        text        == IF manual # <<>> THEN manual ELSE from_upload
        lines       == splitlines(text)
    IN  IF text # <<>> /\ entered.summarize_resume
        THEN join_lines(SubSeq(lines, 1,
                               IF Len(lines) < SummaryLines THEN Len(lines)
                               ELSE SummaryLines))
        ELSE text

\* The handler of the "Run AI Screening" button: a warning, or the call of
\* the engine it makes.
run_ai_screening(entered) ==
    IF resume_text(entered) = <<>> \/ entered.job_desc = <<>>
    THEN [entry |-> "warning", text |-> <<>>, job_description |-> <<>>]
    ELSE IF entered.uploaded_file.uploaded
    THEN run_candidate_screening_from_pdf(entered.uploaded_file, entered.job_desc)
    ELSE [entry           |-> "run_candidate_screening_from_text",
          text            |-> resume_text(entered),
          job_description |-> entered.job_desc]

(***************************************************************************)
(* The compiled stage graph and one evaluation request                     *)
(***************************************************************************)
VARIABLES
    pc,         \* "app" while the page waits for the button, then the call
                \* or stage about to run, "END", "raised" or "warning"
    form,       \* what the user entered in the page
    state,      \* the evaluation state of the run
    request,    \* the entry point the page called and the arguments that
                \* reach run_candidate_screening_from_text
    history,    \* the stage executions so far: what each stage read, the
                \* answer it got and the update it returned (or what it raised)
    llm_calls,  \* the number of reasoning-service calls issued so far
    error       \* the exception that ended the request, "none" otherwise

vars == <<pc, form, state, request, history, llm_calls, error>>

Stages ==
    {"categorize_experience", "assess_skillset", "deep_profile_analysis",
     "hiring_decision_agent", "reflection_agent", "confidence_agent"}

\* Variant: after the first pass, a review is routed without being scored.
workflow_unscored_review(node, st) ==
    CASE node = "START"                 -> "categorize_experience"
      [] node = "categorize_experience" -> "assess_skillset"
      [] node = "assess_skillset"       -> route_after_skill_check(st)
      [] node = "deep_profile_analysis" -> "hiring_decision_agent"
      [] node = "hiring_decision_agent" -> route_after_agent_decision(st)
      [] node = "reflection_agent"      ->
            IF Get(st, "reflection_attempts", 0) > 1
            THEN route_after_confidence(st)
            ELSE "confidence_agent"
      [] node = "confidence_agent"      -> route_after_confidence(st)

\* The edges of the graph: the stage that follows node in state st.
workflow(node, st) ==
    CASE node = "START"                 -> "categorize_experience"
      [] node = "categorize_experience" -> "assess_skillset"
      [] node = "assess_skillset"       -> route_after_skill_check(st)
      [] node = "deep_profile_analysis" -> "hiring_decision_agent"
      [] node = "hiring_decision_agent" -> route_after_agent_decision(st)
      [] node = "reflection_agent"      -> "confidence_agent"
      [] node = "confidence_agent"      -> route_after_confidence(st)

\* request before the page has called the engine.
NoRequest == [entry |-> "none", text |-> <<>>, job_description |-> <<>>]

Init ==
    /\ pc = "app"
    /\ form \in Forms
    /\ state = <<>>
    /\ request = NoRequest
    /\ history = <<>>
    /\ llm_calls = 0
    /\ error = "none"

Execution(node, content, result) ==
    [node    |-> node,
     inputs  |-> prompt_inputs(node, state),
     content |-> content,
     result  |-> result]

\* deep_profile_analysis and confidence_agent on each answer of the
\* reasoning service, evaluated once for all the runs.
DeepAnalysisOf ==
    [content \in DeepResponses |-> deep_profile_analysis(content)]

ConfidenceOf ==
    [content \in ConfidenceResponses |-> confidence_agent(content)]

\* run_ai_screening on each form, evaluated once for all the runs.
ScreeningCalls == {<<f, run_ai_screening(f)>> : f \in Forms}

ScreeningCallOf(f) == (CHOOSE call \in ScreeningCalls : call[1] = f)[2]

\* The user presses "Run AI Screening".
RunAIScreening ==
    /\ pc = "app"
    /\ LET call == ScreeningCallOf(form)
       IN  IF call.entry = "warning"
           THEN pc' = "warning" /\ UNCHANGED request
           ELSE pc' = "summarize" /\ request' = call
    /\ UNCHANGED <<form, state, history, llm_calls, error>>

\* A stage returned update: the graph merges it and follows the edge.
Completes(node, content, update) ==
    /\ state' = Merge(state, update)
    /\ pc' = workflow(node, Merge(state, update))
    /\ history' = Append(history, Execution(node, content, Ok(update)))
    /\ llm_calls' = llm_calls + 1
    /\ UNCHANGED <<form, request, error>>

\* A stage raised while handling the answer: nothing in the engine catches it.
Aborts(node, content, e) ==
    /\ pc' = "raised"
    /\ error' = e
    /\ history' = Append(history, Execution(node, content, Raise(e)))
    /\ llm_calls' = llm_calls + 1
    /\ UNCHANGED <<form, state, request>>

\* Variant: the resume is handed to the graph without a summarization call.
Summarize_without_call ==
    /\ pc = "summarize"
    /\ state' = Project(run_candidate_screening_from_text(
                            request.text, request.job_description,
                            request.text))
    /\ pc' = workflow("START", state')
    /\ UNCHANGED <<form, request, history, llm_calls, error>>

\* run_candidate_screening_from_text up to app.invoke
Summarize ==
    /\ pc = "summarize"
    /\ \E content \in SummaryResponses :
          state' = Project(run_candidate_screening_from_text(
                               request.text, request.job_description, content))
    /\ pc' = workflow("START", state')
    /\ llm_calls' = llm_calls + 1
    /\ UNCHANGED <<form, request, history, error>>

CategorizeExperience ==
    /\ pc = "categorize_experience"
    /\ \E content \in ExperienceResponses :
          Completes(pc, content, categorize_experience(content))

AssessSkillset ==
    /\ pc = "assess_skillset"
    /\ \E content \in SkillResponses :
          Completes(pc, content, assess_skillset(content))

DeepProfileAnalysis ==
    /\ pc = "deep_profile_analysis"
    /\ \E content \in DeepResponses :
          LET result == DeepAnalysisOf[content]
          IN  IF result.ok THEN Completes(pc, content, result.val)
              ELSE Aborts(pc, content, result.err)

HiringDecisionAgent ==
    /\ pc = "hiring_decision_agent"
    /\ \E content \in DecisionResponses :
          Completes(pc, content, hiring_decision_agent(content))

ReflectionAgent ==
    /\ pc = "reflection_agent"
    /\ \E content \in ReflectionResponses :
          Completes(pc, content, reflection_agent(state, content))

ConfidenceAgent ==
    /\ pc = "confidence_agent"
    /\ \E content \in ConfidenceResponses :
          Completes(pc, content, ConfidenceOf[content])

\* Variant: a raising reasoning-service call is swallowed and the state so
\* far is returned.
ServiceRaises_swallowed ==
    /\ pc \in Stages \cup {"summarize"}
    /\ pc' = "END"
    /\ error' = "ServiceError"
    /\ llm_calls' = llm_calls + 1
    /\ UNCHANGED <<form, state, request, history>>

\* A reasoning-service call raises instead of returning.
ServiceRaises ==
    /\ pc \in Stages \cup {"summarize"}
    /\ pc' = "raised"
    /\ error' = "ServiceError"
    /\ llm_calls' = llm_calls + 1
    /\ UNCHANGED <<form, state, request, history>>

\* The steps in which the reasoning service returns an answer.
NextReturns ==
    \/ RunAIScreening
    \/ Summarize
    \/ CategorizeExperience
    \/ AssessSkillset
    \/ DeepProfileAnalysis
    \/ HiringDecisionAgent
    \/ ReflectionAgent
    \/ ConfidenceAgent

Next ==
    \/ NextReturns
    \/ ServiceRaises

Spec == Init /\ [][Next]_vars

\* Every reasoning-service call returns, and the run is driven to its end.
SpecReturns == Init /\ [][NextReturns]_vars /\ WF_vars(NextReturns)

(***************************************************************************)
(* Properties                                                              *)
(***************************************************************************)
\* reflection_attempts as every reader of the state sees it.
Attempts(st) == Get(st, "reflection_attempts", 0)

\* The executions of a stage, in order.
Executions(node) == SelectSeq(history, LAMBDA e : e.node = node)

Executed(node) == \E i \in 1..Len(history) : history[i].node = node

SkillIsNoMatch ==
    "skill_match" \in DOMAIN state /\ state["skill_match"] = S_NoMatch

\* C1: when assess_skillset set skill_match to exactly "No Match", deep
\* analysis does not run in that run, no stage writes relevance_score or
\* analysis_summary, and hiring_decision_agent reads their defaults.
C1_NoMatchSkipsDeepAnalysis ==
    SkillIsNoMatch =>
        /\ pc # "deep_profile_analysis"
        /\ ~Executed("deep_profile_analysis")
        /\ "relevance_score" \notin DOMAIN state
        /\ "analysis_summary" \notin DOMAIN state
        /\ \A i \in 1..Len(history) :
              history[i].node = "hiring_decision_agent" =>
                  /\ history[i].inputs.relevance_score = 50
                  /\ history[i].inputs.analysis_summary = S_NotAvailable

\* hiring_decision_agent has run on a "No Match" candidate.
C1_Witness ==
    /\ SkillIsNoMatch
    /\ pc = "reflection_agent"
    /\ Executed("hiring_decision_agent")

\* C2: reflection_attempts is at most 3 in every state of a run.
C2_AttemptsAtMostCeiling == Attempts(state) <= 3

\* A run that used all three review passes.
C2_Witness == pc = "END" /\ Attempts(state) = 3

\* C3: when confidence_agent completes with reflection_attempts >= 3 the run
\* ends there, whatever the confidence, and no stage runs after the end.
C3_CeilingEndsRun ==
    [][/\ (/\ pc = "confidence_agent"
           /\ history' # history
           /\ Attempts(state') >= 3) => pc' = "END"
       /\ pc # "END"]_vars

\* A run ended by the ceiling while the confidence was still below 60.
C3_Witness ==
    /\ pc = "END"
    /\ Attempts(state) = 3
    /\ state["confidence_score"] < 60

\* C4: once the first execution of confidence_agent has produced a score of
\* at least 60 the run is over after one review cycle, and the final state
\* holds the decision and the score of that first pass.
C4_ConfidentFirstPassEndsRun ==
    LET reviews == Executions("reflection_agent")
        scores  == Executions("confidence_agent")
    IN  (scores # <<>> /\ scores[1].result.val.confidence_score >= 60) =>
            /\ pc = "END"
            /\ Len(reviews) = 1
            /\ Len(scores) = 1
            /\ Attempts(state) = 1
            /\ state["final_decision"] = reviews[1].result.val.final_decision
            /\ state["confidence_score"]
                   = scores[1].result.val.confidence_score

\* A run ended by a first-pass confidence of exactly 60.
C4_Witness ==
    /\ pc = "END"
    /\ Len(Executions("confidence_agent")) = 1
    /\ state["confidence_score"] = 60
    /\ state["final_decision"] = strip(R_Reject)

\* C5: reflection_attempts starts at 0, goes up by exactly 1 on every
\* execution of reflection_agent and is changed by nothing else.
C5_AttemptsCountReviews ==
    /\ Attempts(state) = 0
    /\ [][IF pc = "reflection_agent" /\ pc' = "confidence_agent"
          THEN Attempts(state') = Attempts(state) + 1
          ELSE Attempts(state') = Attempts(state)]_vars

\* The second review has just run.
C5_Witness ==
    /\ pc = "confidence_agent"
    /\ Attempts(state) = 2
    /\ Len(Executions("reflection_agent")) = 2

\* C6: provided every reasoning-service call returns, every run eventually
\* reaches the terminate branch of the router after confidence_agent.
C6_EveryRunTerminates == (pc = "summarize") ~> (pc = "END")

\* C7: a confidence below 60 before the ceiling sends the run back to
\* reflection_agent, a review is always followed by confidence_agent, and the
\* run ends only out of confidence_agent.
C7_LoopRerunsBothStages ==
    [][/\ (/\ pc = "confidence_agent"
           /\ history' # history
           /\ Attempts(state') < 3
           /\ state'["confidence_score"] < 60) => pc' = "reflection_agent"
       /\ pc = "reflection_agent" => pc' \in {"confidence_agent", "raised"}
       /\ pc' = "END" => pc = "confidence_agent"]_vars

\* A run that went round the loop once more and ended after two cycles.
C7_Witness ==
    /\ pc = "END"
    /\ Len(Executions("reflection_agent")) = 2
    /\ Len(Executions("confidence_agent")) = 2
    /\ history[Len(history) - 2].result.val.confidence_score < 60

\* C8: whatever the reasoning service answers to the deep-analysis prompt,
\* deep_profile_analysis does not abort the run.
C8_DeepAnalysisNeverAborts ==
    \A i \in 1..Len(history) :
        history[i].node = "deep_profile_analysis" => history[i].result.ok

\* The text contains no opening brace, hence no JSON object.
NoBrace(text) == \A i \in 1..Len(text) : text[i] # "{"

\* C9: an answer without any JSON object makes deep_profile_analysis return
\* exactly relevance_score 50.0 and analysis_summary "Parsing failed.".
C9_NoJsonGivesDefaults ==
    \A i \in 1..Len(history) :
        (history[i].node = "deep_profile_analysis"
            /\ NoBrace(history[i].content)) =>
                history[i].result =
                    Ok([relevance_score  |-> 50,
                        analysis_summary |-> S_ParsingFailed])

\* Deep analysis has completed on an answer without a JSON object.
C9_Witness ==
    /\ pc = "hiring_decision_agent"
    /\ history # <<>>
    /\ history[Len(history)].node = "deep_profile_analysis"
    /\ history[Len(history)].content = R_DeepNoJson
    /\ state["analysis_summary"] = S_ParsingFailed

\* The text has a character other than digits, signs, the decimal point and
\* white space, so it is not a number in the literals of this model.
NotNumeric(text) ==
    \E i \in 1..Len(text) :
        ~IsDigit(text[i]) /\ ~IsSpace(text[i]) /\ text[i] \notin {"+", "-", "."}

\* C10: an answer to the confidence prompt that is not a number sets
\* confidence_score to exactly 75.0, and the run ends on that pass.
C10_UnparseableConfidenceEndsRun ==
    \A i \in 1..Len(history) :
        (history[i].node = "confidence_agent"
            /\ NotNumeric(history[i].content)) =>
                /\ history[i].result = Ok([confidence_score |-> 75])
                /\ i = Len(history)
                /\ pc = "END"

\* A first pass whose confidence answer was a word.
C10_Witness ==
    /\ pc = "END"
    /\ Attempts(state) = 1
    /\ history[Len(history)].content = R_ConfWord
    /\ state["confidence_score"] = 75

\* The fields of the state that only deep_profile_analysis writes.
DeepFields == {"relevance_score", "analysis_summary"}

\* C11 as stated: every completed run returns a final state in which all ten
\* fields are present, on the path that skips deep analysis too.
C11_AllFieldsPresent == pc = "END" => DOMAIN state = StateKeys

\* C11: every completed run of either entry point returns a final state in
\* which the eight fields other than relevance_score and analysis_summary are
\* present; these two are present when deep analysis ran and absent when
\* skill_match was exactly "No Match".
C11_FieldsPresentUnlessSkipped ==
    pc = "END" =>
        /\ StateKeys \ DeepFields \subseteq DOMAIN state
        /\ DOMAIN state \subseteq StateKeys
        /\ IF state["skill_match"] = S_NoMatch
           THEN DOMAIN state \cap DeepFields = {}
           ELSE DeepFields \subseteq DOMAIN state

\* A run of the PDF entry point completed on the path that skips deep
\* analysis.
C11_Witness ==
    /\ pc = "END"
    /\ request.entry = "run_candidate_screening_from_pdf"
    /\ state["skill_match"] = S_NoMatch
    /\ "relevance_score" \notin DOMAIN state

\* C12: a reasoning-service call that raises, in the summarization or in any
\* of the six stages, ends the request: the exception is not caught, the
\* state is left as it was, no stage executes afterwards and no final state
\* is returned.  What is handled inside a stage is an answer that cannot be
\* parsed: any answer in confidence_agent, an answer without a JSON object in
\* deep_profile_analysis.
C12_ServiceFailureIsFatal ==
    [][/\ pc # "raised"
       /\ error' # "none" => pc' = "raised" /\ state' = state
       /\ error' = "ServiceError" =>
             /\ pc \in Stages \cup {"summarize"}
             /\ history' = history
       /\ (pc = "confidence_agent" /\ history' # history) =>
             history'[Len(history')].result.ok
       /\ (/\ pc = "deep_profile_analysis"
           /\ history' # history
           /\ NoBrace(history'[Len(history')].content)) =>
                history'[Len(history')].result.ok]_vars

\* The reasoning service raised during the second review of a run.
C12_Witness ==
    /\ pc = "raised"
    /\ error = "ServiceError"
    /\ Len(Executions("confidence_agent")) = 1
    /\ Len(Executions("reflection_agent")) = 1
    /\ "final_decision" \in DOMAIN state

\* C13: in every state of a run relevance_score, when set, and
\* confidence_score, when set, are numbers between 0 and 100, whatever
\* numbers the reasoning service answers.
C13_ScoresInRange ==
    /\ "relevance_score" \in DOMAIN state =>
          (state["relevance_score"] >= 0 /\ state["relevance_score"] <= 100)
    /\ "confidence_score" \in DOMAIN state =>
          (state["confidence_score"] >= 0 /\ state["confidence_score"] <= 100)

\* C14: for every skill_match other than exactly "No Match", near misses
\* such as "No Match." and "no match" included, the router after
\* assess_skillset selects deep_profile_analysis, and deep analysis has
\* executed exactly once, before hiring_decision_agent, whenever
\* hiring_decision_agent runs.
C14_OtherValuesRunDeepAnalysis ==
    ("skill_match" \in DOMAIN state /\ state["skill_match"] # S_NoMatch) =>
        /\ history[Len(history)].node = "assess_skillset" =>
              pc \in {"deep_profile_analysis", "raised"}
        /\ (pc = "hiring_decision_agent" \/ Executed("hiring_decision_agent")) =>
              /\ Len(Executions("deep_profile_analysis")) = 1
              /\ \A i, j \in 1..Len(history) :
                    (history[i].node = "deep_profile_analysis"
                        /\ history[j].node = "hiring_decision_agent") => i < j

\* hiring_decision_agent has run after deep analysis on a candidate whose
\* skill_match is "No Match." with a full stop.
C14_Witness ==
    /\ "skill_match" \in DOMAIN state
    /\ state["skill_match"] = strip(R_NoMatchDot)
    /\ Executed("deep_profile_analysis")
    /\ Executed("hiring_decision_agent")

\* C15: the engine does not enforce rejection on a skill mismatch: every
\* decision in the state is the answer the reasoning service gave, whatever
\* skill_match is, so a run can end with skill_match "No Match" and
\* final_decision "schedule_interview".
C15_DecisionsAreTheAnswers ==
    \A i \in 1..Len(history) :
        /\ history[i].node = "hiring_decision_agent" =>
              history[i].result.val.agent_decision = strip(history[i].content)
        /\ history[i].node = "reflection_agent" =>
              history[i].result.val.final_decision = strip(history[i].content)
        /\ (i = Len(history) /\ pc = "END") =>
              state["final_decision"]
                  = strip(history[i - 1].content)

\* A completed run with skill_match "No Match" and final_decision
\* "schedule_interview".
C15_Witness ==
    /\ pc = "END"
    /\ state["skill_match"] = S_NoMatch
    /\ state["final_decision"] = strip(R_Schedule)

\* The number of executions of a stage so far.
Count(node) == Cardinality({i \in 1..Len(history) : history[i].node = node})

\* C16: the stages execute one at a time in the order categorize_experience,
\* assess_skillset, deep_profile_analysis unless skipped,
\* hiring_decision_agent, then reflection_agent and confidence_agent in
\* alternation; deep analysis executes at most once, the other three exactly
\* once in a completed run, and none of the four executes again once the
\* review loop has started.
C16_StagesRunInOrder ==
    LET n == Len(history)
    IN  /\ n >= 1 => history[1].node = "categorize_experience"
        /\ n >= 2 => history[2].node = "assess_skillset"
        /\ n >= 3 => history[3].node
                        \in {"deep_profile_analysis", "hiring_decision_agent"}
        /\ (n >= 4 /\ history[3].node = "deep_profile_analysis") =>
              history[4].node = "hiring_decision_agent"
        /\ \A i, j \in 1..n :
              (history[i].node = "hiring_decision_agent" /\ i < j) =>
                  history[j].node = IF (j - i) % 2 = 1
                                    THEN "reflection_agent"
                                    ELSE "confidence_agent"
        /\ \A node \in {"categorize_experience", "assess_skillset",
                        "deep_profile_analysis", "hiring_decision_agent"} :
              /\ Count(node) <= 1
              /\ Executed(node) => pc # node
              /\ Executed("reflection_agent") => pc # node
        /\ pc = "END" =>
              /\ Count("categorize_experience") = 1
              /\ Count("assess_skillset") = 1
              /\ Count("hiring_decision_agent") = 1
              /\ Count("reflection_agent") = Count("confidence_agent")

\* A completed run that went through deep analysis and three review cycles.
C16_Witness ==
    /\ pc = "END"
    /\ Len(history) = 10
    /\ history[3].node = "deep_profile_analysis"
    /\ history[10].node = "confidence_agent"

\* The fields a call or stage computes.
Writes(node) ==
    CASE node = "summarize"             -> {"application", "job_description"}
      [] node = "categorize_experience" -> {"experience_level"}
      [] node = "assess_skillset"       -> {"skill_match"}
      [] node = "deep_profile_analysis" ->
            {"relevance_score", "analysis_summary"}
      [] node = "hiring_decision_agent" -> {"agent_decision"}
      [] node = "reflection_agent"      ->
            {"final_decision", "reflection_attempts"}
      [] node = "confidence_agent"      -> {"confidence_score"}
      [] OTHER                          -> {}

\* C17: a stage changes only the fields it computes: reflection_agent only
\* final_decision and reflection_attempts, confidence_agent only
\* confidence_score, so application, job_description, experience_level,
\* skill_match, relevance_score, analysis_summary and agent_decision keep
\* through the review loop the values they had when it was entered.
C17_StagesWriteOnlyTheirFields ==
    [][\A k \in StateKeys \ Writes(pc) :
          /\ k \in DOMAIN state <=> k \in DOMAIN state'
          /\ k \in DOMAIN state => state'[k] = state[k]]_vars

\* A run ended after three reviews still holds the first decision and the
\* analysis made before the loop, next to a different final decision.
C17_Witness ==
    /\ pc = "END"
    /\ Attempts(state) = 3
    /\ state["agent_decision"] = strip(R_Notify)
    /\ state["final_decision"] # state["agent_decision"]
    /\ "analysis_summary" \in DOMAIN state
    /\ state["analysis_summary"] = S_ParsingFailed

\* C18: when a PDF has been uploaded and non-blank text has also been pasted,
\* the text handed to the screening engine by "Run AI Screening" is the
\* pasted text (as the page keeps it, without its surrounding white space).
C18_ManualTextOverridesPdf ==
    (/\ form.uploaded_file.uploaded
     /\ strip(form.manual_resume) # <<>>
     /\ request.entry # "none") =>
        request.text = strip(form.manual_resume)

\* C19: in the terminal state of a completed run reflection_attempts is 1, 2
\* or 3 and equals the number of executions of reflection_agent and of
\* confidence_agent; the last two executions are a review and the scoring
\* that followed it, and they produced the final_decision and the
\* confidence_score the run returns.
C19_TerminalStateMatchesLastCycle ==
    pc = "END" =>
        LET n == Len(history)
        IN  /\ Attempts(state) \in {1, 2, 3}
            /\ Attempts(state) = Len(Executions("reflection_agent"))
            /\ Attempts(state) = Len(Executions("confidence_agent"))
            /\ history[n - 1].node = "reflection_agent"
            /\ history[n].node = "confidence_agent"
            /\ state["final_decision"]
                  = history[n - 1].result.val.final_decision
            /\ history[n].inputs.final_decision = state["final_decision"]
            /\ state["confidence_score"]
                  = history[n].result.val.confidence_score

\* A run ended after two cycles whose second review changed the decision and
\* whose second score differs from the first.
C19_Witness ==
    /\ pc = "END"
    /\ Attempts(state) = 2
    /\ history[Len(history) - 3].result.val.final_decision
          # state["final_decision"]
    /\ history[Len(history) - 2].result.val.confidence_score
          # state["confidence_score"]

\* C20: one call of run_candidate_screening_from_text that returns has issued
\* between 6 and 11 reasoning-service calls: one summarization call before
\* any stage, one each for categorize_experience, assess_skillset and
\* hiring_decision_agent, at most one for deep_profile_analysis, and one per
\* execution of reflection_agent and of confidence_agent, 1 to 3 each; no
\* call of the entry point issues more than 11.
C20_ServiceCallsPerRun ==
    /\ llm_calls <= 11
    /\ history # <<>> => llm_calls >= 1 + Len(history)
    /\ pc \notin {"app", "warning", "summarize"} =>
          llm_calls = 1 + Len(history)
                        + (IF error = "ServiceError" /\ state # <<>>
                           THEN 1 ELSE 0)
    /\ pc = "END" =>
          /\ llm_calls >= 6
          /\ llm_calls = 1 + 3 + Count("deep_profile_analysis")
                           + Count("reflection_agent")
                           + Count("confidence_agent")
          /\ Count("deep_profile_analysis") <= 1
          /\ Count("reflection_agent") \in 1..3
          /\ Count("confidence_agent") \in 1..3

\* A completed run with the fewest calls: deep analysis skipped, one cycle.
C20_Witness ==
    /\ pc = "END"
    /\ llm_calls = 6
    /\ ~Executed("deep_profile_analysis")

====
